---- MODULE Spec2Model ----
(***************************************************************************)
(* Semantic query expansion and relevance ranking of the arXiv paper       *)
(* finder (apfs/semantic_search.py), modelled as a state machine over one  *)
(* SemanticSearchEngine object.  Python str values are TLA+ strings and    *)
(* are processed character by character; Python lists are sequences;       *)
(* insertion-ordered dicts built at run time are sequences of entries.     *)
(* The search client (apfs/arxiv_client.py) and the PDF handler            *)
(* (apfs/pdf_handler.py) are modelled with their retry loops; the arXiv    *)
(* service and the HTTP transfer are their environment.                    *)
(***************************************************************************)
EXTENDS Integers, Sequences, FiniteSets, TLC

VARIABLES
    academic_synonyms,  \* self.academic_synonyms : phrase -> list of synonyms
    domain_terms,       \* self.domain_terms      : domain key -> list of terms
    abbreviation_map,   \* self.abbreviation_map  : ordered <<abbrev, expansion>>
    hashSeed,           \* the interpreter's string-hash seed (fixes set order)
    appends,            \* number of caller-side list appends made so far
    ret,                \* the last call on the engine and what it returned
    calls,              \* per concurrent caller: its call in progress, its locals
    client,             \* the ArxivClient object and its call in progress
    pdf                 \* the PDFHandler object, its download directory, its call

vars == <<academic_synonyms, domain_terms, abbreviation_map, hashSeed, appends,
          ret, calls, client, pdf>>

----------------------------------------------------------------------------
(* Bounds of the model *)

\* hash seeds 0..MaxSeed: each gives the sets of strings another
\* enumeration order
MaxSeed == 2
\* length of the paper list handed to rank_results_by_relevance
MaxPapers == 3
\* appends a caller makes to lists it got back from the engine
MaxAppends == 1
\* callers that use the one engine at the same time
MaxCallers == 2
\* largest max_retries an ArxivClient or a PDFHandler is constructed with
MaxRetries == 3

----------------------------------------------------------------------------
(* Python str primitives *)

Ch(s, i) == SubSeq(s, i, i)
From(s, i) == SubSeq(s, i, Len(s))

UpperLetters == "ABCDEFGHIJKLMNOPQRSTUVWXYZ"
LowerLetters == "abcdefghijklmnopqrstuvwxyz"

lower_table == [c \in {Ch(UpperLetters, i) : i \in 1..26} |->
                  Ch(LowerLetters, CHOOSE i \in 1..26 : Ch(UpperLetters, i) = c)]
upper_table == [c \in {Ch(LowerLetters, i) : i \in 1..26} |->
                  Ch(UpperLetters, CHOOSE i \in 1..26 : Ch(LowerLetters, i) = c)]

RECURSIVE map_chars(_, _)
map_chars(s, table) ==
    IF s = "" THEN ""
    ELSE (IF Ch(s, 1) \in DOMAIN table THEN table[Ch(s, 1)] ELSE Ch(s, 1))
         \o map_chars(From(s, 2), table)

\* str.lower() and str.upper()
lower(s) == map_chars(s, lower_table)
upper(s) == map_chars(s, upper_table)

\* characters matched by \s and removed by str.strip() / str.split()
Whitespace == {" ", "\t", "\n"}
\* the character class [,\s\-_] 
Delimiters == Whitespace \cup {",", "-", "_"}

\* least index >= i of s whose character is (not) in cs, Len(s)+1 if none
RECURSIVE find_in(_, _, _)
find_in(s, i, cs) ==
    IF i > Len(s) \/ Ch(s, i) \in cs THEN i ELSE find_in(s, i + 1, cs)
RECURSIVE find_not_in(_, _, _)
find_not_in(s, i, cs) ==
    IF i > Len(s) \/ Ch(s, i) \notin cs THEN i ELSE find_not_in(s, i + 1, cs)

\* re.split(r'[,\s\-_]+', s): the pieces between maximal delimiter runs,
\* an empty piece where s starts or ends with a delimiter
RECURSIVE re_split(_)
re_split(s) ==
    LET d == find_in(s, 1, Delimiters)
    IN IF d > Len(s) THEN <<s>>
       ELSE <<SubSeq(s, 1, d - 1)>>
            \o re_split(From(s, find_not_in(s, d, Delimiters)))

\* str.strip()
RECURSIVE rstrip(_)
rstrip(s) ==
    IF s # "" /\ Ch(s, Len(s)) \in Whitespace
    THEN rstrip(SubSeq(s, 1, Len(s) - 1)) ELSE s
strip(s) == rstrip(From(s, find_not_in(s, 1, Whitespace)))

\* str.split(): the maximal runs of non-whitespace characters
RECURSIVE split(_)
split(s) ==
    LET b == find_not_in(s, 1, Whitespace)
        e == find_in(s, b, Whitespace)
    IN IF b > Len(s) THEN <<>>
       ELSE <<SubSeq(s, b, e - 1)>> \o split(From(s, e))

\* re.findall(r'"([^"]*)"', s): the text between successive pairs of quotes
RECURSIVE findall_quoted(_)
findall_quoted(s) ==
    LET q1 == find_in(s, 1, {"\""})
        q2 == find_in(s, q1 + 1, {"\""})
    IN IF q2 > Len(s) THEN <<>>
       ELSE <<SubSeq(s, q1 + 1, q2 - 1)>> \o findall_quoted(From(s, q2 + 1))

\* sub in s  (substring containment)
contains(s, sub) ==
    \E i \in 1..(Len(s) - Len(sub) + 1) : SubSeq(s, i, i + Len(sub) - 1) = sub

\* sep.join(parts)
RECURSIVE join(_, _)
join(sep, parts) ==
    IF parts = <<>> THEN ""
    ELSE IF Len(parts) = 1 THEN parts[1]
    ELSE parts[1] \o sep \o join(sep, Tail(parts))

\* parts[:n]
take(parts, n) == SubSeq(parts, 1, IF Len(parts) < n THEN Len(parts) ELSE n)

ToSet(seq) == {seq[i] : i \in 1..Len(seq)}

----------------------------------------------------------------------------
(* The lexicon tables built by SemanticSearchEngine.__init__ *)

load_academic_synonyms ==
       ("artificial intelligence" :> <<"AI", "machine intelligence", "computational intelligence", "intelligent systems">>)
    @@ ("machine learning" :> <<"ML", "statistical learning", "automated learning", "pattern recognition">>)
    @@ ("deep learning" :> <<"neural networks", "deep neural networks", "DNN", "artificial neural networks", "ANN">>)
    @@ ("natural language processing" :> <<"NLP", "computational linguistics", "language processing", "text processing">>)
    @@ ("computer vision" :> <<"CV", "image processing", "visual computing", "pattern recognition", "image analysis">>)
    @@ ("reinforcement learning" :> <<"RL", "reward learning", "sequential decision making", "policy learning">>)
    @@ ("neural network" :> <<"neural net", "connectionist", "artificial neural network", "ANN", "deep network">>)
    @@ ("transformer" :> <<"attention mechanism", "self-attention", "bert", "gpt", "language model">>)
    @@ ("large language model" :> <<"LLM", "foundation model", "generative model", "language generation">>)
    @@ ("generative ai" :> <<"generative model", "text generation", "image generation", "content generation">>)
    @@ ("algorithm" :> <<"algorithmic", "computational method", "procedure", "technique">>)
    @@ ("optimization" :> <<"optimisation", "minimization", "maximization", "objective function">>)
    @@ ("distributed computing" :> <<"parallel computing", "cluster computing", "grid computing", "cloud computing">>)
    @@ ("cybersecurity" :> <<"information security", "network security", "computer security", "cyber defense">>)
    @@ ("blockchain" :> <<"distributed ledger", "cryptocurrency", "bitcoin", "ethereum", "smart contracts">>)
    @@ ("quantum computing" :> <<"quantum computation", "quantum algorithms", "quantum information", "qubits">>)
    @@ ("data science" :> <<"data analytics", "data mining", "big data", "data analysis", "statistical analysis">>)
    @@ ("data mining" :> <<"knowledge discovery", "pattern mining", "data exploration", "information extraction">>)
    @@ ("big data" :> <<"large-scale data", "massive data", "data processing", "scalable analytics">>)
    @@ ("statistics" :> <<"statistical analysis", "statistical methods", "probability", "inference">>)
    @@ ("quantum mechanics" :> <<"quantum physics", "quantum theory", "wave mechanics", "matrix mechanics">>)
    @@ ("relativity" :> <<"general relativity", "special relativity", "einstein", "spacetime">>)
    @@ ("particle physics" :> <<"high energy physics", "elementary particles", "quantum field theory">>)
    @@ ("condensed matter" :> <<"solid state physics", "many-body physics", "materials science">>)
    @@ ("linear algebra" :> <<"matrix theory", "vector spaces", "eigenvalues", "linear transformations">>)
    @@ ("calculus" :> <<"differential calculus", "integral calculus", "mathematical analysis">>)
    @@ ("graph theory" :> <<"network theory", "combinatorial optimization", "discrete mathematics">>)
    @@ ("topology" :> <<"algebraic topology", "differential topology", "geometric topology">>)
    @@ ("bioinformatics" :> <<"computational biology", "systems biology", "genomics", "proteomics">>)
    @@ ("genetics" :> <<"genomics", "molecular genetics", "heredity", "DNA analysis">>)
    @@ ("neuroscience" :> <<"brain research", "cognitive science", "neural networks", "neuroimaging">>)
    @@ ("epidemiology" :> <<"disease modeling", "public health", "infectious disease", "population health">>)
    @@ ("robotics" :> <<"autonomous systems", "robot control", "mechatronics", "automation">>)
    @@ ("control systems" :> <<"feedback control", "system dynamics", "automatic control", "regulation">>)
    @@ ("signal processing" :> <<"digital signal processing", "DSP", "filtering", "spectral analysis">>)

load_domain_terms ==
       ("machine_learning" :> <<"supervised learning", "unsupervised learning", "semi-supervised", "transfer learning", "feature selection", "dimensionality reduction", "cross-validation", "overfitting", "regularization", "gradient descent", "backpropagation", "ensemble methods">>)
    @@ ("deep_learning" :> <<"convolutional neural networks", "CNN", "recurrent neural networks", "RNN", "LSTM", "GRU", "autoencoder", "generative adversarial networks", "GAN", "attention mechanism", "batch normalization", "dropout", "activation function", "loss function">>)
    @@ ("nlp" :> <<"tokenization", "part-of-speech", "named entity recognition", "sentiment analysis", "machine translation", "question answering", "text classification", "language model", "word embedding", "BERT", "GPT", "transformer", "semantic parsing">>)
    @@ ("computer_vision" :> <<"object detection", "image classification", "semantic segmentation", "face recognition", "optical character recognition", "OCR", "image processing", "feature extraction", "edge detection", "histogram", "convolution", "pooling">>)
    @@ ("quantum" :> <<"qubit", "superposition", "entanglement", "quantum gate", "quantum circuit", "quantum algorithm", "quantum supremacy", "quantum error correction", "decoherence">>)

load_abbreviations ==
    <<
      <<"AI", "artificial intelligence">>,
      <<"ML", "machine learning">>,
      <<"DL", "deep learning">>,
      <<"NLP", "natural language processing">>,
      <<"CV", "computer vision">>,
      <<"RL", "reinforcement learning">>,
      <<"CNN", "convolutional neural network">>,
      <<"RNN", "recurrent neural network">>,
      <<"LSTM", "long short-term memory">>,
      <<"GAN", "generative adversarial network">>,
      <<"LLM", "large language model">>,
      <<"NER", "named entity recognition">>,
      <<"OCR", "optical character recognition">>,
      <<"API", "application programming interface">>,
      <<"GPU", "graphics processing unit">>,
      <<"CPU", "central processing unit">>,
      <<"IoT", "internet of things">>,
      <<"AR", "augmented reality">>,
      <<"VR", "virtual reality">>
    >>

\* self.abbreviation_map viewed as a dict
abbreviation_keys == {abbreviation_map[i][1] : i \in 1..Len(abbreviation_map)}
abbreviation_of(k) ==
    abbreviation_map[CHOOSE i \in 1..Len(abbreviation_map) :
                        abbreviation_map[i][1] = k][2]

----------------------------------------------------------------------------
(* Python set and dict primitives *)

RECURSIVE canonical(_)
canonical(S) ==
    IF S = {} THEN <<>>
    ELSE LET x == CHOOSE x \in S : TRUE IN <<x>> \o canonical(S \ {x})

remove_at(seq, i) == SubSeq(seq, 1, i - 1) \o SubSeq(seq, i + 1, Len(seq))

RECURSIVE nth_permutation(_, _)
nth_permutation(seq, k) ==
    IF seq = <<>> THEN <<>>
    ELSE LET n == Len(seq)
             i == (k % n) + 1
         IN <<seq[i]>> \o nth_permutation(remove_at(seq, i), k \div n)

\* list(S) for a set S of str: the enumeration order of a set of strings
\* follows their hashes, which the interpreter salts with a seed drawn at
\* start-up; it is the same for equal sets within one run and may be any
\* order from one run to the next
list_of_set_seeded(S, seed) == nth_permutation(canonical(S), seed)
list_of_set(S) == list_of_set_seeded(S, hashSeed)

\* a dict built at run time: entries [key, val, shared] in insertion order;
\* shared tells that val is the very list object held by a lexicon table
dict_keys(d) == {d[i].key : i \in 1..Len(d)}
dict_index(d, k) == CHOOSE i \in 1..Len(d) : d[i].key = k
dict_value(d, k) == d[dict_index(d, k)].val
\* d.get(k, [])
dict_get(d, k) == IF k \in dict_keys(d) THEN dict_value(d, k) ELSE <<>>
\* d[k] = v
dict_set(d, k, v, sh) ==
    LET e == [key |-> k, val |-> v, shared |-> sh]
    IN IF k \in dict_keys(d) THEN [d EXCEPT ![dict_index(d, k)] = e]
       ELSE Append(d, e)

----------------------------------------------------------------------------
(* _extract_key_terms *)

stop_words ==
    {"a", "an", "and", "are", "as", "at", "be", "by", "for", "from",
     "has", "he", "in", "is", "it", "its", "of", "on", "that", "the",
     "to", "was", "will", "with", "using", "based", "approach", "method"}

select_nonblank_stripped(ts) ==
    LET kept == SelectSeq(ts, LAMBDA t : strip(t) # "")
    IN [i \in 1..Len(kept) |-> strip(kept[i])]

\* filtered_terms without the exemption of known abbreviations
filtered_terms_no_short(query, abbr_keys) ==
    SelectSeq(select_nonblank_stripped(re_split(lower(query))),
              LAMBDA term : term \notin stop_words /\ Len(term) > 2)

\* filtered_terms without the stop-word test
filtered_terms_keeps_stop_words(query, abbr_keys) ==
    SelectSeq(select_nonblank_stripped(re_split(lower(query))),
              LAMBDA term : Len(term) > 2 \/ upper(term) \in abbr_keys)

\* the terms that pass the stop-word and length filter, in query order
filtered_terms(query, abbr_keys) ==
    SelectSeq(select_nonblank_stripped(re_split(lower(query))),
              LAMBDA term : /\ term \notin stop_words
                            /\ (Len(term) > 2 \/ upper(term) \in abbr_keys))

\* compound_terms without the test that both words exceed 2 characters
compound_terms_any_length(query, syn_keys) ==
    LET words == split(query)
        compound(i) == lower(words[i] \o " " \o words[i + 1])
        hits == {i \in 1..(Len(words) - 1) : compound(i) \in syn_keys}
    IN [j \in 1..Cardinality(hits) |->
          compound(CHOOSE i \in hits : Cardinality({h \in hits : h < i}) = j - 1)]

\* the compound terms: adjacent word pairs that are synonym keys
compound_terms(query, syn_keys) ==
    LET words == split(query)
        compound(i) == lower(words[i] \o " " \o words[i + 1])
        hits == {i \in 1..(Len(words) - 1) :
                    /\ Len(words[i]) > 2 /\ Len(words[i + 1]) > 2
                    /\ compound(i) \in syn_keys}
    IN [j \in 1..Cardinality(hits) |->
          compound(CHOOSE i \in hits : Cardinality({h \in hits : h < i}) = j - 1)]

\* meaningful_terms taking the quoted phrases from the lowercased query
meaningful_terms_quoted_lowercased(query, syn_keys, abbr_keys) ==
    filtered_terms(query, abbr_keys)
    \o findall_quoted(lower(query))
    \o compound_terms(query, syn_keys)

\* the list meaningful_terms just before deduplication
meaningful_terms(query, syn_keys, abbr_keys) ==
    filtered_terms(query, abbr_keys)
    \o findall_quoted(query)
    \o compound_terms(query, syn_keys)

\* the set of terms _extract_key_terms returns under the given tables
key_term_set(query, syn_keys, abbr_keys) ==
    ToSet(meaningful_terms(query, syn_keys, abbr_keys))

extract_key_terms(query) ==
    list_of_set(key_term_set(query, DOMAIN academic_synonyms, abbreviation_keys))

----------------------------------------------------------------------------
(* expand_query *)

Modes == {"conservative", "moderate", "aggressive"}

\* term_lower.replace(" ", "_")
replace_space(s) == map_chars(s, (" " :> "_"))

\* add_synonyms with the synonyms entering expanded_terms in moderate mode only
add_synonyms_moderate_only(acc, term, expansion_mode) ==
    LET term_lower == lower(term)
    IN IF term_lower \in DOMAIN academic_synonyms
       THEN LET term_synonyms == academic_synonyms[term_lower]
            IN [acc EXCEPT
                  !.synonyms = dict_set(acc.synonyms, term, term_synonyms, TRUE),
                  !.expanded = IF expansion_mode = "moderate"
                               THEN acc.expanded \cup ToSet(term_synonyms)
                               ELSE acc.expanded]
       ELSE acc

\* "# Add synonyms"
add_synonyms(acc, term, expansion_mode) ==
    LET term_lower == lower(term)
    IN IF term_lower \in DOMAIN academic_synonyms
       THEN LET term_synonyms == academic_synonyms[term_lower]
            IN [acc EXCEPT
                  !.synonyms = dict_set(acc.synonyms, term, term_synonyms, TRUE),
                  !.expanded = IF expansion_mode \in {"moderate", "aggressive"}
                               THEN acc.expanded \cup ToSet(term_synonyms)
                               ELSE acc.expanded]
       ELSE acc

\* add_abbreviation without expanded_terms.add(expanded_term)
add_abbreviation_synonyms_only(acc, term) ==
    IF upper(term) \in abbreviation_keys
    THEN [acc EXCEPT
            !.synonyms = dict_set(acc.synonyms, term,
                                  Append(dict_get(acc.synonyms, term),
                                         abbreviation_of(upper(term))),
                                  FALSE)]
    ELSE acc

\* "# Add abbreviation expansions"
add_abbreviation(acc, term) ==
    IF upper(term) \in abbreviation_keys
    THEN LET expanded_term == abbreviation_of(upper(term))
         IN [acc EXCEPT
               !.expanded = acc.expanded \cup {expanded_term},
               !.synonyms = dict_set(acc.synonyms, term,
                                     Append(dict_get(acc.synonyms, term),
                                            expanded_term),
                                     FALSE)]
    ELSE acc

\* reverse_matches testing whether the term occurs in the expansion
reverse_matches_substring(term) ==
    LET term_lower == lower(term)
    IN SelectSeq(abbreviation_map,
                 LAMBDA item : contains(lower(item[2]), term_lower))

\* "# Add reverse abbreviation lookup": the items of abbreviation_map whose
\* expansion equals the term, in the order the loop meets them
reverse_matches(term) ==
    LET term_lower == lower(term)
    IN SelectSeq(abbreviation_map, LAMBDA item : term_lower = lower(item[2]))

\* add_reverse assigning the abbreviation alone instead of appending it
RECURSIVE add_reverse_overwrites(_, _, _)
add_reverse_overwrites(acc, term, matches) ==
    IF matches = <<>> THEN acc
    ELSE add_reverse_overwrites(
           [acc EXCEPT
              !.expanded = acc.expanded \cup {matches[1][1]},
              !.synonyms = dict_set(acc.synonyms, term, <<matches[1][1]>>, FALSE)],
           term, Tail(matches))

\* the loop body, run for each of those items
RECURSIVE add_reverse(_, _, _)
add_reverse(acc, term, matches) ==
    IF matches = <<>> THEN acc
    ELSE add_reverse(
           [acc EXCEPT
              !.expanded = acc.expanded \cup {matches[1][1]},
              !.synonyms = dict_set(acc.synonyms, term,
                                    Append(dict_get(acc.synonyms, term),
                                           matches[1][1]),
                                    FALSE)],
           term, Tail(matches))

\* add_domain matching a domain key that occurs anywhere in the term's key
add_domain_substring_match(acc, term, expansion_mode) ==
    IF expansion_mode = "aggressive"
    THEN LET domain_key == replace_space(lower(term))
             matching == {k \in DOMAIN domain_terms : contains(domain_key, k)}
         IN IF matching # {}
            THEN LET domain_related == domain_terms[CHOOSE k \in matching : TRUE]
                 IN [acc EXCEPT
                       !.related = dict_set(acc.related, term, domain_related, TRUE),
                       !.expanded = acc.expanded \cup ToSet(take(domain_related, 5))]
            ELSE acc
    ELSE acc

\* add_domain adding the whole cluster to expanded_terms
add_domain_adds_all(acc, term, expansion_mode) ==
    IF expansion_mode = "aggressive"
    THEN LET domain_key == replace_space(lower(term))
         IN IF domain_key \in DOMAIN domain_terms
            THEN LET domain_related == domain_terms[domain_key]
                 IN [acc EXCEPT
                       !.related = dict_set(acc.related, term, domain_related, TRUE),
                       !.expanded = acc.expanded \cup ToSet(domain_related)]
            ELSE acc
    ELSE acc

\* "# Add domain-specific terms"
add_domain(acc, term, expansion_mode) ==
    IF expansion_mode = "aggressive"
    THEN LET domain_key == replace_space(lower(term))
         IN IF domain_key \in DOMAIN domain_terms
            THEN LET domain_related == domain_terms[domain_key]
                 IN [acc EXCEPT
                       !.related = dict_set(acc.related, term, domain_related, TRUE),
                       !.expanded = acc.expanded \cup ToSet(take(domain_related, 5))]
            ELSE acc
    ELSE acc

\* one iteration of "for term in original_terms"
expand_term(acc, term, expansion_mode) ==
    add_domain(
      add_reverse(
        add_abbreviation(
          add_synonyms(acc, term, expansion_mode), term),
        term, reverse_matches(term)),
      term, expansion_mode)

\* the loop "for term in original_terms", from the i-th term on
RECURSIVE expand_loop(_, _, _, _)
expand_loop(acc, original_terms, i, expansion_mode) ==
    IF i > Len(original_terms) THEN acc
    ELSE expand_loop(expand_term(acc, original_terms[i], expansion_mode),
                     original_terms, i + 1, expansion_mode)

\* initial_expansion with expanded_terms starting as the empty set
initial_expansion_empty(original_terms) ==
    [expanded |-> {}, synonyms |-> <<>>, related |-> <<>>]

\* expanded_terms = set(original_terms); synonyms = {}; related_terms = {}
initial_expansion(original_terms) ==
    [expanded |-> ToSet(original_terms), synonyms |-> <<>>, related |-> <<>>]

\* return SemanticExpansion(original_terms, list(expanded_terms), synonyms,
\* related_terms)
make_expansion(original_terms, acc) ==
    [original_terms |-> original_terms,
     expanded_terms |-> list_of_set(acc.expanded),
     synonyms       |-> acc.synonyms,
     related_terms  |-> acc.related]

\* expand_query with the term list already extracted
expand_terms(original_terms, expansion_mode) ==
    make_expansion(original_terms,
                   expand_loop(initial_expansion(original_terms),
                               original_terms, 1, expansion_mode))

expand_query(query, expansion_mode) ==
    expand_terms(extract_key_terms(query), expansion_mode)

----------------------------------------------------------------------------
(* build_semantic_query *)

quote_all(ts) == [i \in 1..Len(ts) |-> "\"" \o ts[i] \o "\""]

\* assemble_query with the moderate cut one clause short
assemble_query_cut3(original_query, synonyms, expansion_mode) ==
    LET with_synonyms == SelectSeq(synonyms, LAMBDA e : e.val # <<>>)
        clauses == [i \in 1..Len(with_synonyms) |->
                      "(" \o join(" OR ", quote_all(take(with_synonyms[i].val, 3)))
                          \o ")"]
        query_parts == <<"(" \o original_query \o ")">> \o clauses
    IN IF expansion_mode = "conservative"
       THEN (IF Len(query_parts) > 1 THEN join(" OR ", take(query_parts, 2))
             ELSE query_parts[1])
       ELSE IF expansion_mode = "moderate"
       THEN (IF Len(query_parts) > 3 THEN join(" OR ", take(query_parts, 3))
             ELSE join(" OR ", query_parts))
       ELSE join(" OR ", query_parts)

\* assemble_query returning the bare original query when conservative mode
\* has no synonym clause to add
assemble_query_bare_original(original_query, synonyms, expansion_mode) ==
    LET with_synonyms == SelectSeq(synonyms, LAMBDA e : e.val # <<>>)
        clauses == [i \in 1..Len(with_synonyms) |->
                      "(" \o join(" OR ", quote_all(take(with_synonyms[i].val, 3)))
                          \o ")"]
        query_parts == <<"(" \o original_query \o ")">> \o clauses
    IN IF expansion_mode = "conservative"
       THEN (IF Len(query_parts) > 1 THEN join(" OR ", take(query_parts, 2))
             ELSE original_query)
       ELSE IF expansion_mode = "moderate"
       THEN (IF Len(query_parts) > 3 THEN join(" OR ", take(query_parts, 4))
             ELSE join(" OR ", query_parts))
       ELSE join(" OR ", query_parts)

\* the final query, given the expansion's synonyms dict
assemble_query(original_query, synonyms, expansion_mode) ==
    LET with_synonyms == SelectSeq(synonyms, LAMBDA e : e.val # <<>>)
        clauses == [i \in 1..Len(with_synonyms) |->
                      "(" \o join(" OR ", quote_all(take(with_synonyms[i].val, 3)))
                          \o ")"]
        query_parts == <<"(" \o original_query \o ")">> \o clauses
    IN IF expansion_mode = "conservative"
       THEN (IF Len(query_parts) > 1 THEN join(" OR ", take(query_parts, 2))
             ELSE query_parts[1])
       ELSE IF expansion_mode = "moderate"
       THEN (IF Len(query_parts) > 3 THEN join(" OR ", take(query_parts, 4))
             ELSE join(" OR ", query_parts))
       ELSE join(" OR ", query_parts)

build_semantic_query(original_query, expansion_mode) ==
    assemble_query(original_query,
                   expand_query(original_query, expansion_mode).synonyms,
                   expansion_mode)

----------------------------------------------------------------------------
(* rank_results_by_relevance *)

lower_all(S) == {lower(t) : t \in S}

\* total_score of one paper, in tenths: 2 per original term, 0.5 per
\* expanded-only term, 0.3 per matching category
total_score(paper, original_terms, expanded_terms) ==
    LET text_content == lower(paper.title \o " " \o paper.abstract)
        original_score ==
            2 * Cardinality({t \in original_terms : contains(text_content, t)})
        synonym_score ==
            Cardinality({t \in expanded_terms :
                           contains(text_content, t) /\ t \notin original_terms})
        category_score ==
            Cardinality({c \in 1..Len(paper.categories) :
                           \E t \in original_terms :
                               contains(lower(paper.categories[c]), t)})
    IN 10 * original_score + 5 * synonym_score + 3 * category_score

\* key_less with the key's two components swapped
key_less_date_first(a, b) ==
    \/ a.paper.published < b.paper.published
    \/ a.paper.published = b.paper.published /\ a.score < b.score

\* key_less with the score as the whole key
key_less_score_only(a, b) == a.score < b.score

\* key=lambda x: (x[1], x[0].published), compared as tuples
key_less(a, b) ==
    \/ a.score < b.score
    \/ a.score = b.score /\ a.paper.published < b.paper.published

\* a descending sort that reverses the input order of equal keys
RECURSIVE sort_reverse_ties_reversed(_)
sort_reverse_ties_reversed(scored) ==
    IF scored = <<>> THEN <<>>
    ELSE LET n == Len(scored)
             x == scored[n]
             sorted == sort_reverse_ties_reversed(SubSeq(scored, 1, n - 1))
             pos == Cardinality({i \in 1..(n - 1) : key_less(x, sorted[i])})
         IN SubSeq(sorted, 1, pos) \o <<x>> \o SubSeq(sorted, pos + 1, n - 1)

\* list.sort(key=..., reverse=True): stable, descending
RECURSIVE sort_reverse(_)
sort_reverse(scored) ==
    IF scored = <<>> THEN <<>>
    ELSE LET n == Len(scored)
             x == scored[n]
             sorted == sort_reverse(SubSeq(scored, 1, n - 1))
             pos == Cardinality({i \in 1..(n - 1) : ~ key_less(sorted[i], x)})
         IN SubSeq(sorted, 1, pos) \o <<x>> \o SubSeq(sorted, pos + 1, n - 1)

\* the list scored_papers before it is sorted, given the expansion
score_all(papers, expansion) ==
    LET original_terms == lower_all(ToSet(expansion.original_terms))
        expanded_terms == lower_all(ToSet(expansion.expanded_terms))
    IN [i \in 1..Len(papers) |->
          [paper |-> papers[i],
           score |-> total_score(papers[i], original_terms, expanded_terms)]]

\* scored_papers taking its terms from the aggressive expansion
scored_papers_aggressive(papers, original_query) ==
    score_all(papers, expand_query(original_query, "aggressive"))

scored_papers(papers, original_query) ==
    score_all(papers, expand_query(original_query, "moderate"))

\* the sorted (paper, score) list with the scores dropped
papers_of(sorted) == [i \in 1..Len(sorted) |-> sorted[i].paper]

\* rank_results_by_relevance returning only the papers that scored
rank_results_scored_only(papers, original_query) ==
    LET sorted == SelectSeq(sort_reverse(scored_papers(papers, original_query)),
                            LAMBDA x : x.score > 0)
    IN [i \in 1..Len(sorted) |-> sorted[i].paper]

rank_results_by_relevance(papers, original_query) ==
    LET sorted == sort_reverse(scored_papers(papers, original_query))
    IN [i \in 1..Len(sorted) |-> sorted[i].paper]

----------------------------------------------------------------------------
(* explain_expansion *)

\* the bullet character U+2022 of the report lines
Bullet == "*"

explain_lines(d) ==
    [i \in 1..Len(d) |->
        "  " \o Bullet \o " " \o d[i].key \o ": " \o join(", ", take(d[i].val, 3))]

\* the report, given the expansion and the built query
explain_text(query, expansion_mode, expansion, semantic_query) ==
    LET explanation ==
            <<"Original query: '" \o query \o "'",
              "Expansion mode: " \o expansion_mode>>
            \o (IF expansion.synonyms # <<>>
                THEN <<"\nSynonyms found:">> \o explain_lines(expansion.synonyms)
                ELSE <<>>)
            \o (IF expansion.related_terms # <<>>
                THEN <<"\nRelated terms:">> \o explain_lines(expansion.related_terms)
                ELSE <<>>)
            \o <<"\nExpanded search query:\n" \o semantic_query>>
    IN join("\n", explanation)

explain_expansion(query, expansion_mode) ==
    explain_text(query, expansion_mode, expand_query(query, expansion_mode),
                 build_semantic_query(query, expansion_mode))

----------------------------------------------------------------------------
(* Inputs of the calls *)

Queries ==
    {"", "x", "AI", "IoT", "AI ML", "AI ML NLP CV", "\"AI\"", "\"\"",
     "machine learning", "deep learning", "the deep-learning,method_x",
     "quantum computing", "AI artificial intelligence",
     "neural networks", "\"neural networks\"",
     "computer vision", "generative AI", "\"The\""}

\* the three documented modes and one value that is none of them
ModeInputs == Modes \cup {"balanced"}

\* Paper objects as ArxivClient.search_papers builds them (the fields the
\* ranker reads); published is a timestamp
PaperPool ==
    {[arxiv_id |-> "p1", title |-> "Deep Learning Survey", abstract |-> "",
      categories |-> <<"cs.LG">>, published |-> 1],
     [arxiv_id |-> "p2", title |-> "Unrelated Topic", abstract |-> "",
      categories |-> <<"cs.AI", "math.CO">>, published |-> 3],
     [arxiv_id |-> "p3", title |-> "Artificial Intelligence", abstract |-> "for CV",
      categories |-> <<>>, published |-> 2],
     [arxiv_id |-> "p4", title |-> "Another topic", abstract |-> "an RNN",
      categories |-> <<>>, published |-> 3]}

\* lists of distinct papers, at most MaxPapers long
PaperLists ==
    UNION {{ps \in [1..n -> PaperPool] :
              \A i, j \in 1..n : i # j => ps[i] # ps[j]} : n \in 0..MaxPapers}

\* the queries results are ranked for
RankQueries == {"deep learning", "AI"}

\* what a caller may append to a list the engine handed out
AppendValues == {"zzz"}

----------------------------------------------------------------------------
(* The state machine *)

\* papers_after is the caller's list object after the call, scored the
\* method's local list scored_papers when it returns
NoCall == [op |-> "none", query |-> "", mode |-> "", papers |-> <<>>,
           outcome |-> "none", result |-> <<>>,
           papers_after |-> <<>>, scored |-> <<>>]

Callers == 1..MaxCallers

\* a caller that has no call in progress
IdleCall == [pc |-> "idle", op |-> "none", query |-> "", mode |-> "",
             papers |-> <<>>, pass |-> 0, terms |-> <<>>, i |-> 0,
             acc |-> initial_expansion(<<>>), first |-> <<>>, result |-> <<>>]

\* Optional[str] values: None, and a str
Optional_None == [is_none |-> TRUE, str |-> ""]
Optional_str(s) == [is_none |-> FALSE, str |-> s]

\* before ArxivClient(...) has run.  Of a constructed client: its
\* attributes, the call in progress (pc, op and its arguments), the loop
\* variable attempt, what the call has done so far (events: one entry per
\* search attempt, exc = "" when it succeeded with the papers found, and
\* one per sleep), and how
\* it ended (papers returned, exception raised, explanation returned)
NoClient ==
    [constructed |-> FALSE, max_retries |-> 0, semantic_engine |-> FALSE,
     pc |-> "idle", op |-> "none", query |-> "", semantic_mode |-> "",
     search_query |-> "", attempt |-> 0, events |-> <<>>, papers |-> <<>>,
     exception |-> "", explanation |-> Optional_None]

\* the arXiv ids whose PDFs are downloaded
ArxivIds == {"2301.00001", "cs/0101001"}

\* str.replace('/', '_')
RECURSIVE replace_slash(_)
replace_slash(s) ==
    IF s = "" THEN ""
    ELSE (IF Ch(s, 1) = "/" THEN "_" ELSE Ch(s, 1)) \o replace_slash(From(s, 2))

\* the name of the file download_pdf uses for the id, in download_dir
filename(arxiv_id) == replace_slash(arxiv_id) \o ".pdf"

FileNames == {filename(id) : id \in ArxivIds}

\* before PDFHandler(...) has run.  Of a constructed handler: max_retries,
\* whether download_dir exists, its files ("absent", "partial": opened
\* for writing and not written to the end, "complete"), the call in
\* progress, the loop variable attempt and the returned value (a file
\* name or None)
NoHandler ==
    [constructed |-> FALSE, max_retries |-> 0, dir_exists |-> FALSE,
     files |-> [f \in FileNames |-> "absent"],
     pc |-> "idle", arxiv_id |-> "", attempt |-> 0,
     result |-> Optional_None]

Init ==
    /\ academic_synonyms = load_academic_synonyms
    /\ domain_terms = load_domain_terms
    /\ abbreviation_map = load_abbreviations
    /\ hashSeed \in 0..MaxSeed
    /\ appends = 0
    /\ ret = NoCall
    /\ calls = [c \in Callers |-> IdleCall]
    /\ client = NoClient
    /\ pdf = NoHandler

\* A call is made when the caller holds no earlier result; it runs to its
\* return statement, no path of these methods raises
Returned(op, query, mode, papers, result) ==
    /\ ret = NoCall
    /\ ret' = [op |-> op, query |-> query, mode |-> mode, papers |-> papers,
               outcome |-> "returned", result |-> result,
               papers_after |-> papers, scored |-> <<>>]
    /\ UNCHANGED <<academic_synonyms, domain_terms, abbreviation_map,
                   hashSeed, appends, calls, client, pdf>>

ExtractKeyTerms ==
    \E query \in Queries :
        Returned("extract_key_terms", query, "", <<>>, extract_key_terms(query))

\* ExpandQuery on tables that create an entry for every term looked up
ExpandQueryRegistersTerms ==
    \E query \in Queries, mode \in ModeInputs :
        LET result == expand_query(query, mode)
            looked_up == {lower(t) : t \in ToSet(result.original_terms)}
        IN /\ ret = NoCall
           /\ ret' = [op |-> "expand_query", query |-> query, mode |-> mode,
                      papers |-> <<>>, outcome |-> "returned", result |-> result,
                      papers_after |-> <<>>, scored |-> <<>>]
           /\ academic_synonyms' =
                 [k \in DOMAIN academic_synonyms \cup looked_up |->
                    IF k \in DOMAIN academic_synonyms
                    THEN academic_synonyms[k] ELSE <<>>]
           /\ UNCHANGED <<domain_terms, abbreviation_map, hashSeed, appends,
                          calls, client, pdf>>

ExpandQuery ==
    \E query \in Queries, mode \in ModeInputs :
        Returned("expand_query", query, mode, <<>>, expand_query(query, mode))

BuildSemanticQuery ==
    \E query \in Queries, mode \in ModeInputs :
        Returned("build_semantic_query", query, mode, <<>>,
                 build_semantic_query(query, mode))

\* rank_results_by_relevance with the argument list sorted in place
papers_after_rank_sorted_in_place(papers, original_query) ==
    rank_results_by_relevance(papers, original_query)

\* the argument list after the call: the method builds and sorts its own
\* list scored_papers and never assigns to papers or to a paper
papers_after_rank(papers, original_query) == papers

RankResults ==
    \E query \in RankQueries, papers \in PaperLists :
        /\ ret = NoCall
        /\ ret' = [op |-> "rank_results_by_relevance", query |-> query,
                   mode |-> "", papers |-> papers, outcome |-> "returned",
                   result |-> rank_results_by_relevance(papers, query),
                   papers_after |-> papers_after_rank(papers, query),
                   scored |-> sort_reverse(scored_papers(papers, query))]
        /\ UNCHANGED <<academic_synonyms, domain_terms, abbreviation_map,
                       hashSeed, appends, calls, client, pdf>>

ExplainExpansion ==
    \E query \in Queries, mode \in ModeInputs :
        Returned("explain_expansion", query, mode, <<>>,
                 explain_expansion(query, mode))

\* The caller appends to a list of the SemanticExpansion it was returned
\* and is then done with it.  synonyms[term] is the lexicon's own list when
\* only the synonym branch assigned it, and related_terms[term] always is.
CallerAppends ==
    /\ ret.op = "expand_query"
    /\ appends < MaxAppends
    /\ appends' = appends + 1
    /\ ret' = NoCall
    /\ \E x \in AppendValues :
        \/ \E i \in 1..Len(ret.result.synonyms) :
             LET e == ret.result.synonyms[i]
             IN /\ academic_synonyms' =
                     IF e.shared
                     THEN [academic_synonyms EXCEPT
                             ![lower(e.key)] = Append(academic_synonyms[lower(e.key)], x)]
                     ELSE academic_synonyms
                /\ UNCHANGED domain_terms
        \/ \E i \in 1..Len(ret.result.related_terms) :
             LET e == ret.result.related_terms[i]
             IN /\ domain_terms' =
                     [domain_terms EXCEPT
                        ![replace_space(lower(e.key))] =
                            Append(domain_terms[replace_space(lower(e.key))], x)]
                /\ UNCHANGED academic_synonyms
    /\ UNCHANGED <<abbreviation_map, hashSeed, calls, client, pdf>>

\* The caller is done with the value it was returned
DropResult ==
    /\ ret # NoCall
    /\ ret' = NoCall
    /\ UNCHANGED <<academic_synonyms, domain_terms, abbreviation_map,
                   hashSeed, appends, calls, client, pdf>>

----------------------------------------------------------------------------
(* The command line entry point and the search client it drives *)

\* the parameters of main, one per click argument or option
main_params ==
    <<"query", "max_results", "category", "date_from", "date_to",
      "summarize", "summary_type", "full_text", "model", "output_format",
      "output_file", "download_dir", "cleanup">>

\* None, for an optional string argument
None == ""

\* the query string search_papers sends to arXiv; semantic_engine tells
\* whether the client was constructed with an engine
search_query(query, category, semantic_engine, semantic_mode) ==
    LET expanded == IF semantic_engine /\ semantic_mode # None
                    THEN build_semantic_query(query, semantic_mode)
                    ELSE query
    IN IF category # None
       THEN (IF semantic_engine /\ semantic_mode # None
             THEN "cat:" \o category \o " AND (" \o expanded \o ")"
             ELSE "cat:" \o category \o " AND " \o query)
       ELSE expanded

\* the values of --category
Categories == {None, "cs.AI"}

\* A run of main: it constructs ArxivClient(), which has no engine, and
\* calls search_papers without a semantic_mode; ret.result is the query
\* string the client sends
Main ==
    \E query \in Queries, category \in Categories :
        /\ ret = NoCall
        /\ ret' = [op |-> "main", query |-> query, mode |-> None,
                   papers |-> <<>>, outcome |-> "returned",
                   result |-> search_query(query, category, FALSE, None),
                   papers_after |-> <<>>, scored |-> <<>>]
        /\ UNCHANGED <<academic_synonyms, domain_terms, abbreviation_map,
                       hashSeed, appends, calls, client, pdf>>

Next ==
    \/ ExtractKeyTerms
    \/ ExpandQuery
    \/ BuildSemanticQuery
    \/ ExplainExpansion
    \/ Main
    \/ CallerAppends
    \/ DropResult

Spec == Init /\ [][Next]_vars

\* Ranking calls, on the engine as constructed
NextRank ==
    \/ RankResults
    \/ DropResult

SpecRank == Init /\ [][NextRank]_vars

----------------------------------------------------------------------------
(* Several callers on one engine.  A call runs in steps, one per statement
   group that reads the engine's tables: the term extraction, each
   iteration of the term loop, and the code after the loop.  The steps of
   different callers interleave freely.  original_terms, expanded_terms,
   synonyms and related_terms are locals of the call. *)

paper(id) == CHOOSE p \in PaperPool : p.arxiv_id = id

\* the calls the concurrent callers make
ConcurrentCalls ==
    {[op |-> "expand_query", query |-> "machine learning",
      mode |-> "aggressive", papers |-> <<>>],
     [op |-> "build_semantic_query", query |-> "AI ML",
      mode |-> "moderate", papers |-> <<>>],
     [op |-> "rank_results_by_relevance", query |-> "AI",
      mode |-> "", papers |-> <<paper("p1"), paper("p3")>>],
     [op |-> "explain_expansion", query |-> "AI",
      mode |-> "conservative", papers |-> <<>>]}

\* the mode the call hands to expand_query
call_mode(call) ==
    IF call.op = "rank_results_by_relevance" THEN "moderate" ELSE call.mode

Unchanged_engine ==
    UNCHANGED <<academic_synonyms, domain_terms, abbreviation_map,
                hashSeed, appends, ret, client, pdf>>

Invoke(c) ==
    /\ calls[c].pc = "idle"
    /\ \E call \in ConcurrentCalls :
         calls' = [calls EXCEPT ![c] =
                     [IdleCall EXCEPT !.pc = "extract", !.op = call.op,
                                      !.query = call.query, !.mode = call.mode,
                                      !.papers = call.papers, !.pass = 1]]
    /\ Unchanged_engine

\* original_terms = self._extract_key_terms(query) and the three locals
ExtractStep(c) ==
    /\ calls[c].pc = "extract"
    /\ LET terms == extract_key_terms(calls[c].query)
       IN calls' = [calls EXCEPT ![c] =
                      [calls[c] EXCEPT !.pc = "loop", !.terms = terms, !.i = 1,
                                       !.acc = initial_expansion(terms)]]
    /\ Unchanged_engine

\* LoopStep with the loop's working sets kept on the engine, one for all
\* callers, instead of in locals
LoopStepSharedScratch(c) ==
    /\ calls[c].pc = "loop"
    /\ calls[c].i <= Len(calls[c].terms)
    /\ LET acc == expand_term(calls[c].acc, calls[c].terms[calls[c].i],
                              call_mode(calls[c]))
       IN calls' = [d \in Callers |->
                      IF d = c
                      THEN [calls[c] EXCEPT !.acc = acc, !.i = calls[c].i + 1]
                      ELSE IF calls[d].pc = "loop"
                      THEN [calls[d] EXCEPT !.acc = acc]
                      ELSE calls[d]]
    /\ Unchanged_engine

\* one iteration of "for term in original_terms"
LoopStep(c) ==
    /\ calls[c].pc = "loop"
    /\ calls[c].i <= Len(calls[c].terms)
    /\ LET acc == expand_term(calls[c].acc, calls[c].terms[calls[c].i],
                              call_mode(calls[c]))
       IN calls' = [calls EXCEPT ![c] =
                      [calls[c] EXCEPT !.acc = acc, !.i = calls[c].i + 1]]
    /\ Unchanged_engine

\* the code after the loop: expand_query returns, and its caller method
\* goes on with the expansion.  explain_expansion expands twice, the second
\* time inside build_semantic_query.
FinishStep(c) ==
    /\ calls[c].pc = "loop"
    /\ calls[c].i > Len(calls[c].terms)
    /\ LET call == calls[c]
           expansion == make_expansion(call.terms, call.acc)
           built == assemble_query(call.query, expansion.synonyms, call.mode)
       IN calls' = [calls EXCEPT ![c] =
            IF call.op = "expand_query"
            THEN [call EXCEPT !.pc = "done", !.result = expansion]
            ELSE IF call.op = "build_semantic_query"
            THEN [call EXCEPT !.pc = "done", !.result = built]
            ELSE IF call.op = "rank_results_by_relevance"
            THEN [call EXCEPT !.pc = "done",
                              !.result = papers_of(sort_reverse(
                                             score_all(call.papers, expansion)))]
            ELSE IF call.pass = 1
            THEN [call EXCEPT !.pc = "extract", !.pass = 2, !.first = expansion]
            ELSE [call EXCEPT !.pc = "done",
                              !.result = explain_text(call.query, call.mode,
                                                      call.first, built)]]
    /\ Unchanged_engine

\* the caller takes the result
ReturnStep(c) ==
    /\ calls[c].pc = "done"
    /\ calls' = [calls EXCEPT ![c] = IdleCall]
    /\ Unchanged_engine

NextConcurrent ==
    \E c \in Callers :
        \/ Invoke(c)
        \/ ExtractStep(c)
        \/ LoopStep(c)
        \/ FinishStep(c)
        \/ ReturnStep(c)

SpecConcurrent == Init /\ [][NextConcurrent]_vars

----------------------------------------------------------------------------
(* The search client: ArxivClient, its retry loop around the arXiv search
   and its explanation method.  The arXiv library is the environment: an
   attempt either yields result papers or raises. *)

\* the queries handed to the client, its semantic_mode arguments, what one
\* search attempt can find and what it can raise
ClientQueries == {"", "AI", "deep learning", "\"\""}
SemanticModes == {None, "moderate"}
ArxivResults == {<<>>, <<paper("p1")>>, <<paper("p1"), paper("p3")>>}
Exceptions == {"HTTPError", "UnexpectedEmptyPageError"}

Unchanged_client ==
    UNCHANGED <<academic_synonyms, domain_terms, abbreviation_map,
                hashSeed, appends, ret, calls, pdf>>

\* ArxivClient(max_retries, delay_between_retries, enable_semantic_search)
NewArxivClient ==
    /\ ~ client.constructed
    /\ \E max_retries \in 0..MaxRetries, enable_semantic_search \in BOOLEAN :
           client' = [NoClient EXCEPT !.constructed = TRUE,
                                      !.max_retries = max_retries,
                                      !.semantic_engine = enable_semantic_search]
    /\ Unchanged_client

\* explain_semantic_search without the test of self.semantic_engine
explain_semantic_search_ignores_engine(semantic_engine, query, mode) ==
    Optional_str(explain_expansion(query, mode))

explain_semantic_search(semantic_engine, query, mode) ==
    IF ~ semantic_engine THEN Optional_None
    ELSE Optional_str(explain_expansion(query, mode))

ExplainSemanticSearch ==
    /\ client.constructed /\ client.pc = "idle"
    /\ \E query \in ClientQueries, mode \in Modes :
           client' = [client EXCEPT
                         !.pc = "returned", !.op = "explain_semantic_search",
                         !.query = query, !.semantic_mode = mode,
                         !.explanation =
                             explain_semantic_search(client.semantic_engine,
                                                     query, mode)]
    /\ Unchanged_client

\* the call of search_papers up to the retry loop
SearchPapers ==
    /\ client.constructed /\ client.pc = "idle"
    /\ \E query \in ClientQueries, category \in Categories,
          semantic_mode \in SemanticModes :
           client' = [client EXCEPT
                         !.pc = "loop", !.op = "search_papers",
                         !.query = query, !.semantic_mode = semantic_mode,
                         !.search_query =
                             search_query(query, category,
                                          client.semantic_engine, semantic_mode),
                         !.attempt = 0]
    /\ Unchanged_client

\* the test of the except clause that also lets the last failure retry
retry_allowed_on_last(attempt, max_retries) == attempt < max_retries

\* the test of the except clause: is there another attempt to come
retry_allowed(attempt, max_retries) == attempt < max_retries - 1

\* the papers an attempt returns for what the search found
attempt_papers(found, semantic_engine, semantic_mode, query) ==
    IF semantic_engine /\ semantic_mode # None /\ found # <<>>
    THEN rank_results_by_relevance(found, query)
    ELSE found

\* one pass of the loop body that reaches its return statement
AttemptSucceeds ==
    /\ client.pc = "loop" /\ client.attempt < client.max_retries
    /\ \E found \in ArxivResults :
           client' = [client EXCEPT
                         !.pc = "returned",
                         !.events = Append(client.events,
                                           [kind |-> "attempt", exc |-> "",
                                            found |-> found]),
                         !.papers = attempt_papers(found, client.semantic_engine,
                                                   client.semantic_mode,
                                                   client.query)]
    /\ Unchanged_client

\* one pass of the loop body that raises: the handler sleeps next or
\* raises the exception again
AttemptFails ==
    /\ client.pc = "loop" /\ client.attempt < client.max_retries
    /\ \E e \in Exceptions :
           client' = [client EXCEPT
                         !.events = Append(client.events,
                                           [kind |-> "attempt", exc |-> e,
                                            found |-> <<>>]),
                         !.pc = IF retry_allowed(client.attempt, client.max_retries)
                                THEN "sleep" ELSE "raised",
                         !.exception = IF retry_allowed(client.attempt,
                                                        client.max_retries)
                                       THEN "" ELSE e]
    /\ Unchanged_client

\* time.sleep(self.delay_between_retries), then the next value of attempt
Sleep ==
    /\ client.pc = "sleep"
    /\ client' = [client EXCEPT
                     !.pc = "loop", !.attempt = client.attempt + 1,
                     !.events = Append(client.events,
                                       [kind |-> "sleep", exc |-> "",
                                        found |-> <<>>])]
    /\ Unchanged_client

\* the range is exhausted: return []
LoopExhausted ==
    /\ client.pc = "loop" /\ client.attempt >= client.max_retries
    /\ client' = [client EXCEPT !.pc = "returned", !.papers = <<>>]
    /\ Unchanged_client

\* the caller has the value or the exception; the client is idle again
ClientCallEnds ==
    /\ client.pc \in {"returned", "raised"}
    /\ client' = [NoClient EXCEPT !.constructed = TRUE,
                                  !.max_retries = client.max_retries,
                                  !.semantic_engine = client.semantic_engine]
    /\ Unchanged_client

NextClient ==
    \/ NewArxivClient
    \/ ExplainSemanticSearch
    \/ SearchPapers
    \/ AttemptSucceeds
    \/ AttemptFails
    \/ Sleep
    \/ LoopExhausted
    \/ ClientCallEnds

SpecClient == Init /\ [][NextClient]_vars

----------------------------------------------------------------------------
(* The PDF handler: PDFHandler.download_pdf and its retry loop over the
   download directory.  The HTTP transfer is the environment: an attempt
   fails before the file is opened, fails after it was opened, or writes
   the file to the end. *)

Unchanged_pdf ==
    UNCHANGED <<academic_synonyms, domain_terms, abbreviation_map,
                hashSeed, appends, ret, calls, client>>

\* PDFHandler(download_dir, max_retries): the directory is created
NewPDFHandler ==
    /\ ~ pdf.constructed
    /\ \E max_retries \in 0..MaxRetries :
           pdf' = [NoHandler EXCEPT !.constructed = TRUE,
                                    !.max_retries = max_retries,
                                    !.dir_exists = TRUE]
    /\ Unchanged_pdf

\* file_path.exists()
exists(files, dir_exists, name) == dir_exists /\ files[name] # "absent"

\* the call of download_pdf up to the retry loop: an existing file is
\* returned as it is
DownloadPdf ==
    /\ pdf.constructed /\ pdf.pc = "idle"
    /\ \E arxiv_id \in ArxivIds :
           pdf' = IF exists(pdf.files, pdf.dir_exists, filename(arxiv_id))
                  THEN [pdf EXCEPT !.pc = "returned", !.arxiv_id = arxiv_id,
                                   !.result = Optional_str(filename(arxiv_id))]
                  ELSE [pdf EXCEPT !.pc = "loop", !.arxiv_id = arxiv_id,
                                   !.attempt = 0]
    /\ Unchanged_pdf

\* the except clause: the next attempt, or return None after the last one
after_failure(h) ==
    IF h.attempt < h.max_retries - 1
    THEN [h EXCEPT !.attempt = h.attempt + 1]
    ELSE [h EXCEPT !.pc = "returned", !.result = Optional_None]

\* requests.get, raise_for_status or open raises: no file is written
AttemptFailsBeforeWrite ==
    /\ pdf.pc = "loop" /\ pdf.attempt < pdf.max_retries
    /\ pdf' = after_failure(pdf)
    /\ Unchanged_pdf

\* the file was opened for writing and iter_content or write raises: the
\* with statement closes the file and leaves it in the directory
AttemptFailsDuringTransfer ==
    /\ pdf.pc = "loop" /\ pdf.attempt < pdf.max_retries
    /\ pdf.dir_exists
    /\ pdf' = after_failure(
                  [pdf EXCEPT !.files[filename(pdf.arxiv_id)] = "partial"])
    /\ Unchanged_pdf

\* every chunk is written: return file_path
AttemptCompletes ==
    /\ pdf.pc = "loop" /\ pdf.attempt < pdf.max_retries
    /\ pdf.dir_exists
    /\ pdf' = [pdf EXCEPT !.files[filename(pdf.arxiv_id)] = "complete",
                          !.pc = "returned",
                          !.result = Optional_str(filename(pdf.arxiv_id))]
    /\ Unchanged_pdf

\* the range is exhausted: return None
DownloadLoopExhausted ==
    /\ pdf.pc = "loop" /\ pdf.attempt >= pdf.max_retries
    /\ pdf' = [pdf EXCEPT !.pc = "returned", !.result = Optional_None]
    /\ Unchanged_pdf

\* the caller has the value; the handler is idle again
DownloadCallEnds ==
    /\ pdf.pc = "returned"
    /\ pdf' = [pdf EXCEPT !.pc = "idle", !.arxiv_id = "", !.attempt = 0,
                          !.result = Optional_None]
    /\ Unchanged_pdf

\* cleanup_downloads: each *.pdf file is unlinked unless unlink raises, and
\* the directory is removed when that left it empty
CleanupDownloads ==
    /\ pdf.constructed /\ pdf.pc = "idle" /\ pdf.dir_exists
    /\ \E kept \in SUBSET {f \in FileNames : pdf.files[f] # "absent"} :
           pdf' = [pdf EXCEPT
                      !.files = [f \in FileNames |->
                                    IF f \in kept THEN pdf.files[f] ELSE "absent"],
                      !.dir_exists = kept # {}]
    /\ Unchanged_pdf

NextDownload ==
    \/ NewPDFHandler
    \/ DownloadPdf
    \/ AttemptFailsBeforeWrite
    \/ AttemptFailsDuringTransfer
    \/ AttemptCompletes
    \/ DownloadLoopExhausted
    \/ DownloadCallEnds
    \/ CleanupDownloads

SpecDownload == Init /\ [][NextDownload]_vars

----------------------------------------------------------------------------
(* Properties *)

Count(seq, x) == Cardinality({i \in 1..Len(seq) : seq[i] = x})

ExpandReturned == ret.op = "expand_query" /\ ret.mode \in Modes

\* the expanded term set of the last expand_query call's query under mode m
ExpandedUnder(m) ==
    IF m = ret.mode THEN ToSet(ret.result.expanded_terms)
    ELSE ToSet(expand_query(ret.query, m).expanded_terms)

\* C1: for every query and each of the three modes, every term of the
\* returned original_terms is also in the returned expanded_terms.
C1_OriginalTermsExpanded ==
    ExpandReturned =>
        ToSet(ret.result.original_terms) \subseteq ToSet(ret.result.expanded_terms)

C1_Witness ==
    /\ ExpandReturned
    /\ ret.result.original_terms # <<>>
    /\ Len(ret.result.expanded_terms) > Len(ret.result.original_terms)

\* C2: for every query the expanded term set grows with the mode:
\* conservative is a subset of moderate, moderate a subset of aggressive.
C2_ModeMonotonic ==
    ExpandReturned =>
        /\ ExpandedUnder("conservative") \subseteq ExpandedUnder("moderate")
        /\ ExpandedUnder("moderate") \subseteq ExpandedUnder("aggressive")

C2_Witness ==
    /\ ExpandReturned
    /\ ret.mode = "moderate"
    /\ ExpandedUnder("conservative") # ExpandedUnder("moderate")
    /\ ExpandedUnder("moderate") # ExpandedUnder("aggressive")

RankReturned == ret.op = "rank_results_by_relevance"

\* C3: rank_results_by_relevance returns a permutation of its input: same
\* length, every paper as often as in the input, nothing added.
C3_RankIsPermutation ==
    RankReturned =>
        /\ Len(ret.result) = Len(ret.papers)
        /\ \A p \in PaperPool \cup ToSet(ret.result) :
               Count(ret.result, p) = Count(ret.papers, p)

C3_Witness ==
    /\ RankReturned
    /\ Len(ret.papers) = MaxPapers
    /\ ret.result # ret.papers
    /\ \E i \in 1..Len(ret.papers) :
           total_score(ret.papers[i],
                       lower_all(ToSet(extract_key_terms(ret.query))), {}) = 0

\* C4: the output of rank_results_by_relevance is sorted descending by
\* (score, publication timestamp): a higher score comes first whatever the
\* dates, and of two equal scores the later publication comes first.
C4_SortedByScoreThenDate ==
    RankReturned =>
        LET ranked == scored_papers(ret.result, ret.query)
        IN \A i, j \in 1..Len(ranked) :
               i < j =>
                   \/ ranked[i].score > ranked[j].score
                   \/ /\ ranked[i].score = ranked[j].score
                      /\ ranked[i].paper.published >= ranked[j].paper.published

C4_Witness ==
    /\ RankReturned
    /\ ret.result # ret.papers
    /\ LET ranked == scored_papers(ret.result, ret.query)
       IN /\ \E i, j \in 1..Len(ranked) :
                 /\ i < j
                 /\ ranked[i].score > ranked[j].score
                 /\ ranked[i].paper.published < ranked[j].paper.published
          /\ \E i, j \in 1..Len(ranked) :
                 /\ i < j
                 /\ ranked[i].score = ranked[j].score
                 /\ ranked[i].paper.published > ranked[j].paper.published

\* C5: a call of expand_query, build_semantic_query or explain_expansion
\* with a mode that is none of conservative, moderate, aggressive reports an
\* invalid argument to the caller instead of returning a result.
C5_InvalidModeReported ==
    /\ ret.op \in {"expand_query", "build_semantic_query", "explain_expansion"}
    /\ ret.mode \notin Modes
    => ret.outcome = "raised"

\* C6: _extract_key_terms is a pure function of its query: whatever calls
\* and caller-side changes came before, it returns the set of terms a newly
\* constructed engine returns for that query.
C6_ExtractIsPure ==
    ret.op = "extract_key_terms" =>
        ToSet(ret.result) =
            key_term_set(ret.query, DOMAIN load_academic_synonyms,
                         {load_abbreviations[i][1] :
                             i \in 1..Len(load_abbreviations)})

C6_Witness ==
    /\ ret.op = "extract_key_terms"
    /\ appends > 0
    /\ academic_synonyms # load_academic_synonyms
    /\ \E t \in ToSet(ret.result) : t \in DOMAIN academic_synonyms

\* what build_semantic_query returns in a run whose hash seed is seed
build_under_seed(query, mode, seed) ==
    assemble_query(
        query,
        expand_terms(
            list_of_set_seeded(
                key_term_set(query, DOMAIN academic_synonyms, abbreviation_keys),
                seed),
            mode).synonyms,
        mode)

\* C7: for a fixed query and mode build_semantic_query returns the same
\* string in every run, whatever order the set of extracted terms is
\* enumerated in.
C7_BuildDeterministic ==
    ret.op = "build_semantic_query" /\ ret.mode \in Modes =>
        \A seed \in 0..MaxSeed :
            ret.result = build_under_seed(ret.query, ret.mode, seed)

\* the lexicon synonyms recorded for a term, none if it is not a key
LexiconSynonyms(term) ==
    IF lower(term) \in DOMAIN academic_synonyms
    THEN academic_synonyms[lower(term)] ELSE <<>>

\* x was appended to synonyms[term], after the lexicon synonyms
AppendedSynonym(term, x) ==
    /\ term \in dict_keys(ret.result.synonyms)
    /\ \E j \in 1..Len(dict_value(ret.result.synonyms, term)) :
           /\ dict_value(ret.result.synonyms, term)[j] = x
           /\ j > Len(LexiconSynonyms(term))

\* C8: in every mode, a term whose uppercase form is an abbreviation key
\* has the full phrase in expanded_terms and appended to synonyms[term]; a
\* term whose lowercase form is the full phrase of an abbreviation has that
\* abbreviation in expanded_terms and appended to synonyms[term].
C8_AbbreviationsInEveryMode ==
    ExpandReturned =>
        \A term \in ToSet(ret.result.original_terms) :
            /\ upper(term) \in abbreviation_keys =>
                   /\ abbreviation_of(upper(term)) \in ToSet(ret.result.expanded_terms)
                   /\ AppendedSynonym(term, abbreviation_of(upper(term)))
            /\ \A i \in 1..Len(abbreviation_map) :
                   lower(term) = abbreviation_map[i][2] =>
                       /\ abbreviation_map[i][1] \in ToSet(ret.result.expanded_terms)
                       /\ AppendedSynonym(term, abbreviation_map[i][1])

C8_Witness ==
    /\ ExpandReturned
    /\ ret.mode = "conservative"
    /\ \E term \in ToSet(ret.result.original_terms) :
           upper(term) \in abbreviation_keys
    /\ \E term \in ToSet(ret.result.original_terms) :
           /\ lower(term) \in DOMAIN academic_synonyms
           /\ \E i \in 1..Len(abbreviation_map) :
                  lower(term) = abbreviation_map[i][2]

\* the clauses of the built query: the parenthesized original and one
\* parenthesized clause of up to three quoted synonyms per recorded term
ExpectedClauses(query, mode) ==
    LET synonyms == expand_query(query, mode).synonyms
    IN <<"(" \o query \o ")">>
       \o [i \in 1..Len(synonyms) |->
              "(" \o join(" OR ", quote_all(take(synonyms[i].val, 3))) \o ")"]

ClausesKept(mode, n) ==
    IF mode = "conservative" THEN (IF n < 2 THEN n ELSE 2)
    ELSE IF mode = "moderate" THEN (IF n < 4 THEN n ELSE 4)
    ELSE n

\* C9: build_semantic_query returns the clauses joined by " OR ", the
\* parenthesized original query first: at most the first 2 in conservative
\* mode, at most the first 4 in moderate mode, all in aggressive mode; for
\* "AI" in conservative mode that is (AI) OR ("artificial intelligence").
C9_BuiltQueryShape ==
    ret.op = "build_semantic_query" /\ ret.mode \in Modes =>
        LET clauses == ExpectedClauses(ret.query, ret.mode)
        IN /\ ret.result =
                join(" OR ", take(clauses, ClausesKept(ret.mode, Len(clauses))))
           /\ ret.query = "AI" /\ ret.mode = "conservative" =>
                ret.result = "(AI) OR (\"artificial intelligence\")"

C9_Witness ==
    /\ ret.op = "build_semantic_query"
    /\ ret.mode = "moderate"
    /\ Len(ExpectedClauses(ret.query, ret.mode)) > 4

\* C10 as stated: _extract_key_terms("AI") returns exactly {"AI"}.
C10_ExtractAIUppercase ==
    ret.op = "extract_key_terms" /\ ret.query = "AI" =>
        ToSet(ret.result) = {"AI"}

\* C10 amended: _extract_key_terms("AI") returns exactly {"ai"}: the
\* two-letter token is retained because its uppercase form is a known
\* abbreviation, and the returned term is the lowercased token.
C10_ExtractAILowercased ==
    ret.op = "extract_key_terms" /\ ret.query = "AI" =>
        /\ ToSet(ret.result) = {"ai"}
        /\ upper("ai") \in abbreviation_keys

C10_Witness ==
    /\ ret.op = "extract_key_terms"
    /\ ret.query = "AI"
    /\ ret.result = <<"ai">>

\* xs occurs in ys as a subsequence: all of xs, in the order of xs
RECURSIVE IsSubsequence(_, _)
IsSubsequence(xs, ys) ==
    IF xs = <<>> THEN TRUE
    ELSE IF ys = <<>> THEN FALSE
    ELSE IF xs[1] = ys[1] THEN IsSubsequence(Tail(xs), Tail(ys))
    ELSE IsSubsequence(xs, Tail(ys))

\* C11: in every mode, conservative included, for every extracted term whose
\* lowercase form is a key of the synonym lexicon, synonyms[term] contains
\* all of that key's lexicon synonyms in lexicon order; for "machine
\* learning" these are "ML", "statistical learning", "automated learning",
\* "pattern recognition".
C11_LexiconSynonymsRecorded ==
    ExpandReturned =>
        /\ \A t \in ToSet(ret.result.original_terms) :
               lower(t) \in DOMAIN academic_synonyms =>
                   /\ t \in dict_keys(ret.result.synonyms)
                   /\ IsSubsequence(academic_synonyms[lower(t)],
                                    dict_get(ret.result.synonyms, t))
        /\ ret.query = "machine learning" =>
               IsSubsequence(<<"ML", "statistical learning",
                               "automated learning", "pattern recognition">>,
                             dict_get(ret.result.synonyms, "machine learning"))

C11_Witness ==
    /\ ExpandReturned
    /\ ret.mode = "conservative"
    /\ ret.query = "machine learning"
    /\ "machine learning" \in ToSet(ret.result.original_terms)
    /\ Len(dict_get(ret.result.synonyms, "machine learning"))
           > Len(academic_synonyms["machine learning"])

\* C12: related_terms has an entry for an extracted term t exactly when the
\* mode is aggressive and lowercase(t) with spaces replaced by underscores
\* is a key of the domain table (the whole key, not a part of it); in
\* conservative and moderate mode related_terms is empty, and the aggressive
\* expansion of "quantum computing" has no entry for "quantum computing".
C12_RelatedOnlyForExactDomainKey ==
    ExpandReturned =>
        /\ dict_keys(ret.result.related_terms) =
               {t \in ToSet(ret.result.original_terms) :
                    /\ ret.mode = "aggressive"
                    /\ replace_space(lower(t)) \in DOMAIN domain_terms}
        /\ ret.mode \in {"conservative", "moderate"} =>
               ret.result.related_terms = <<>>
        /\ ret.query = "quantum computing" =>
               "quantum computing" \notin dict_keys(ret.result.related_terms)

C12_Witness ==
    /\ ExpandReturned
    /\ ret.mode = "aggressive"
    /\ ret.query = "quantum computing"
    /\ "quantum computing" \in ToSet(ret.result.original_terms)
    /\ dict_keys(ret.result.related_terms) = {"quantum"}

\* C13: for the empty query string _extract_key_terms returns no term,
\* expand_query returns empty original and expanded terms, and
\* build_semantic_query returns "()" in each of the three modes; each call
\* returns, none raises.
C13_EmptyQueryDegenerate ==
    ret.query = "" =>
        /\ ret.op = "extract_key_terms" =>
               ret.outcome = "returned" /\ ret.result = <<>>
        /\ ExpandReturned =>
               /\ ret.outcome = "returned"
               /\ ret.result.original_terms = <<>>
               /\ ret.result.expanded_terms = <<>>
        /\ (ret.op = "build_semantic_query" /\ ret.mode \in Modes) =>
               ret.outcome = "returned" /\ ret.result = "()"

C13_Witness ==
    /\ ret.op = "build_semantic_query"
    /\ ret.query = ""
    /\ ret.mode = "conservative"
    /\ ret.result = "()"

\* the term is in none of the three tables, under any of the four lookups
InNoTable(t) ==
    /\ lower(t) \notin DOMAIN academic_synonyms
    /\ \A i \in 1..Len(abbreviation_map) :
           /\ abbreviation_map[i][1] # upper(t)
           /\ lower(abbreviation_map[i][2]) # lower(t)
    /\ replace_space(lower(t)) \notin DOMAIN domain_terms

\* C14: for every query and each of the three modes expand_query and
\* build_semantic_query return a result, none raises; a term found in none
\* of the tables is no error and contributes only itself: it is in
\* expanded_terms, has no synonyms and no related_terms entry, and a query
\* all of whose terms are such expands to its original terms and builds to
\* the parenthesized original query.
C14_TotalAndMissesAddNothing ==
    /\ ExpandReturned =>
          /\ ret.outcome = "returned"
          /\ \A t \in ToSet(ret.result.original_terms) :
                 InNoTable(t) =>
                     /\ t \in ToSet(ret.result.expanded_terms)
                     /\ t \notin dict_keys(ret.result.synonyms)
                     /\ t \notin dict_keys(ret.result.related_terms)
          /\ (\A t \in ToSet(ret.result.original_terms) : InNoTable(t)) =>
                 ToSet(ret.result.expanded_terms) = ToSet(ret.result.original_terms)
    /\ (ret.op = "build_semantic_query" /\ ret.mode \in Modes) =>
          /\ ret.outcome = "returned"
          /\ (\A t \in ToSet(extract_key_terms(ret.query)) : InNoTable(t)) =>
                 ret.result = "(" \o ret.query \o ")"

C14_Witness ==
    /\ ExpandReturned
    /\ ret.mode = "aggressive"
    /\ ret.query = "the deep-learning,method_x"
    /\ ret.result.original_terms # <<>>
    /\ \A t \in ToSet(ret.result.original_terms) : InNoTable(t)
    /\ ret.outcome = "returned"

\* what the call returns when no other call runs on the engine
AloneResult(call) ==
    CASE call.op = "expand_query" -> expand_query(call.query, call.mode)
      [] call.op = "build_semantic_query" ->
             build_semantic_query(call.query, call.mode)
      [] call.op = "rank_results_by_relevance" ->
             rank_results_by_relevance(call.papers, call.query)
      [] call.op = "explain_expansion" ->
             explain_expansion(call.query, call.mode)

\* C15: under every interleaving of the steps of concurrent expand_query,
\* build_semantic_query, rank_results_by_relevance and explain_expansion
\* calls on one engine, the three tables keep their value at construction
\* and every call returns the result it returns when run alone.
C15_ConcurrentCallsIsolated ==
    /\ academic_synonyms = load_academic_synonyms
    /\ domain_terms = load_domain_terms
    /\ abbreviation_map = load_abbreviations
    /\ \A c \in Callers :
           calls[c].pc = "done" => calls[c].result = AloneResult(calls[c])

C15_Witness ==
    \E c, d \in Callers :
        /\ c # d
        /\ calls[c].pc = "done"
        /\ calls[c].op = "explain_expansion"
        /\ calls[d].pc = "loop"
        /\ calls[d].op = "expand_query"
        /\ calls[d].i > 1

\* C16: every expansion result is freshly allocated: no list of the
\* SemanticExpansion returned by expand_query is a list object of the
\* lexicon tables, so a caller modifying a returned synonym or related-term
\* list changes neither the lexicon nor any later result.
C16_ResultsFreshlyAllocated ==
    /\ ExpandReturned =>
          /\ \A i \in 1..Len(ret.result.synonyms) :
                 ~ ret.result.synonyms[i].shared
          /\ \A i \in 1..Len(ret.result.related_terms) :
                 ~ ret.result.related_terms[i].shared
    /\ academic_synonyms = load_academic_synonyms
    /\ domain_terms = load_domain_terms

\* the terms the ranker scores with: the moderate expansion of the query,
\* lowercased
RankTerms(query) ==
    LET expansion == expand_query(query, "moderate")
    IN [original |-> lower_all(ToSet(expansion.original_terms)),
        expanded |-> lower_all(ToSet(expansion.expanded_terms))]

ScoringText(p) == lower(p.title \o " " \o p.abstract)

\* the original and expanded terms that are substrings of the paper's text
TextMatches(p, terms) ==
    LET text == ScoringText(p)
    IN {t \in terms.original \cup terms.expanded : contains(text, t)}

\* the paper's categories that contain an original term
CategoryMatches(p, terms) ==
    {c \in 1..Len(p.categories) :
         \E t \in terms.original : contains(lower(p.categories[c]), t)}

\* the score the claim states, in tenths
StatedScore(p, terms) ==
    LET matches == TextMatches(p, terms)
    IN 20 * Cardinality(matches \cap terms.original)
       + 5 * Cardinality(matches \ terms.original)
       + 3 * Cardinality(CategoryMatches(p, terms))

\* C17: the score of a paper is 2 x (original terms that are substrings of
\* its lowercased title and abstract) + 0.5 x (expanded terms that are not
\* original terms and are substrings of that text) + 0.3 x (its categories
\* that contain an original term, case-insensitively), the terms being
\* those of the moderate expansion of the original query.
C17_ScoreFormula ==
    RankReturned =>
        LET terms == RankTerms(ret.query)
        IN \A i \in 1..Len(ret.scored) :
               ret.scored[i].score = StatedScore(ret.scored[i].paper, terms)

C17_Witness ==
    /\ RankReturned
    /\ ret.query = "deep learning"
    /\ \E i, j \in 1..Len(ret.scored) :
           /\ ret.scored[i].score >= 20
           /\ ret.scored[j].score = 0
           /\ ret.scored[j].paper.arxiv_id = "p4"

\* the papers of the list, in order, that share no text term with the query
NoTextMatch(scored, terms) ==
    SelectSeq(scored, LAMBDA x : TextMatches(x.paper, terms) = {})

\* C18 as stated: a paper none of whose title and abstract contains an
\* original or expanded term has score 0 whatever its categories, and all
\* such papers are ordered among themselves newest first.
C18_NoSharedTermScoresZero ==
    RankReturned =>
        LET such == NoTextMatch(ret.scored, RankTerms(ret.query))
        IN /\ \A i \in 1..Len(such) : such[i].score = 0
           /\ \A i, j \in 1..Len(such) :
                  i < j => such[i].paper.published >= such[j].paper.published

SharesNothing(p, terms) ==
    TextMatches(p, terms) = {} /\ CategoryMatches(p, terms) = {}

\* C18, amended: a paper none of whose title and abstract contains an
\* original or expanded term and none of whose categories contains an
\* original term has score 0, and all such papers are ordered among
\* themselves by publication time alone, newest first.
C18_NoMatchScoresZero ==
    RankReturned =>
        LET terms == RankTerms(ret.query)
            such == SelectSeq(ret.scored,
                              LAMBDA x : SharesNothing(x.paper, terms))
        IN /\ \A i \in 1..Len(such) : such[i].score = 0
           /\ \A i, j \in 1..Len(such) :
                  i < j => such[i].paper.published >= such[j].paper.published

C18_Witness ==
    /\ RankReturned
    /\ LET terms == RankTerms(ret.query)
       IN /\ \E i, j \in 1..Len(ret.papers) :
                 /\ i < j
                 /\ SharesNothing(ret.papers[i], terms)
                 /\ SharesNothing(ret.papers[j], terms)
                 /\ ret.papers[i].published < ret.papers[j].published
          /\ \E i \in 1..Len(ret.papers) :
                 /\ TextMatches(ret.papers[i], terms) = {}
                 /\ CategoryMatches(ret.papers[i], terms) # {}

RankStep == ret.op = "none" /\ ret'.op = "rank_results_by_relevance"

\* C19: rank_results_by_relevance only reads its arguments: when it
\* returns, the input list holds the same papers in the same order with
\* every field unchanged, and the engine's state holds no score and no
\* paper, it is what it was before the call.
C19_RankOnlyReads ==
    [][RankStep =>
          /\ ret'.papers_after = ret'.papers
          /\ academic_synonyms' = academic_synonyms
          /\ domain_terms' = domain_terms
          /\ abbreviation_map' = abbreviation_map]_vars

C19_Witness ==
    /\ RankReturned
    /\ Len(ret.papers) = MaxPapers
    /\ ret.papers_after = ret.papers
    /\ ret.result # ret.papers_after
    /\ \E i \in 1..Len(ret.scored) : ret.scored[i].score > 0

\* C20: the entry point main has the parameters semantic_search,
\* semantic_mode and explain_search, through which a command line run
\* hands the mode to the search client and asks for the explanation.
C20_MainExposesSemanticParameters ==
    ret.op = "main" =>
        {"semantic_search", "semantic_mode", "explain_search"}
            \subseteq ToSet(main_params)

\* every string of the synonyms lists of the returned expansion; the
\* abbreviation expansions of the query are among them
RecordedSynonyms(expansion) ==
    UNION {ToSet(expansion.synonyms[i].val) : i \in 1..Len(expansion.synonyms)}

\* C22: in aggressive mode, for a term whose domain key exists,
\* related_terms[term] is the cluster's full list while only the first 5
\* entries of the cluster are added to expanded_terms: an entry at position
\* 6 or later is in expanded_terms only if it is also an original term, a
\* synonym or an abbreviation expansion of the query.
C22_OnlyFirstFiveRelatedExpanded ==
    (ExpandReturned /\ ret.mode = "aggressive") =>
        \A i \in 1..Len(ret.result.related_terms) :
            LET e == ret.result.related_terms[i]
                cluster == domain_terms[replace_space(lower(e.key))]
            IN /\ e.val = cluster
               /\ \A n \in 1..Len(cluster) :
                      IF n <= 5
                      THEN cluster[n] \in ToSet(ret.result.expanded_terms)
                      ELSE cluster[n] \in ToSet(ret.result.expanded_terms) =>
                               cluster[n] \in ToSet(ret.result.original_terms)
                                              \cup RecordedSynonyms(ret.result)

C22_Witness ==
    /\ ExpandReturned
    /\ ret.mode = "aggressive"
    /\ ret.query = "computer vision"
    /\ LET cluster == dict_get(ret.result.related_terms, "computer vision")
       IN /\ Len(cluster) > 5
          /\ \E n \in 6..Len(cluster) :
                 cluster[n] \notin ToSet(ret.result.expanded_terms)
          /\ \E n \in 6..Len(cluster) :
                 /\ cluster[n] \in ToSet(ret.result.expanded_terms)
                 /\ cluster[n] \in RecordedSynonyms(ret.result)

\* C23: every key of the abbreviation table is an uppercase abbreviation,
\* and a query that is a key written in any letter case gets the key's full
\* phrase added to expanded_terms and to synonyms, in every mode.
C23_AbbreviationKeysCaseNormalized ==
    ExpandReturned =>
        \A i \in 1..Len(abbreviation_map) :
            upper(ret.query) = upper(abbreviation_map[i][1]) =>
                /\ abbreviation_map[i][1] = upper(abbreviation_map[i][1])
                /\ abbreviation_map[i][2] \in ToSet(ret.result.expanded_terms)
                /\ abbreviation_map[i][2] \in RecordedSynonyms(ret.result)

ExtractReturned == ret.op = "extract_key_terms"

\* the tokens of the query: lowercased, split on runs of commas,
\* whitespace, hyphens and underscores
QueryTokens(query) == ToSet(re_split(lower(query)))

\* the filter as stated
PassesFilter(token) ==
    /\ token # ""
    /\ token \notin stop_words
    /\ \/ Len(token) > 2
       \/ \E i \in 1..Len(abbreviation_map) : abbreviation_map[i][1] = upper(token)

\* C24: a token of the lowercased query split on commas, whitespace,
\* hyphens and underscores is retained iff it is non-empty, is no stop word
\* and is longer than 2 characters or has an abbreviation key as its
\* uppercase form (a token that fails the filter is returned only when it
\* is also a quoted phrase of the query); hence a one-character query that
\* is no abbreviation yields no term and the built query "(query)".
C24_TokenFilter ==
    /\ ExtractReturned =>
          \A token \in QueryTokens(ret.query) :
              /\ PassesFilter(token) => token \in ToSet(ret.result)
              /\ (~ PassesFilter(token) /\ token \in ToSet(ret.result)) =>
                     token \in ToSet(findall_quoted(ret.query))
    /\ (Len(ret.query) = 1 /\ ~ PassesFilter(lower(ret.query))) =>
          /\ ExtractReturned => ret.result = <<>>
          /\ (ret.op = "build_semantic_query" /\ ret.mode \in Modes) =>
                 ret.result = "(" \o ret.query \o ")"

C24_Witness ==
    /\ ExtractReturned
    /\ ret.query = "the deep-learning,method_x"
    /\ {"the", "method", "x"} \subseteq QueryTokens(ret.query)
    /\ ToSet(ret.result) = {"deep", "learning"}

\* the positions of the double quotes of the query, in increasing order
QuotePositions(query) ==
    LET at == {i \in 1..Len(query) : SubSeq(query, i, i) = "\""}
    IN [k \in 1..Cardinality(at) |->
          CHOOSE i \in at : Cardinality({j \in at : j < i}) = k - 1]

\* the substrings enclosed in the successive pairs of double quotes
QuotedSubstrings(query) ==
    LET q == QuotePositions(query)
    IN {SubSeq(query, q[2 * k - 1] + 1, q[2 * k] - 1) : k \in 1..(Len(q) \div 2)}

\* C25: every substring enclosed in a pair of double quotes in the original
\* query is one of the extracted terms, verbatim and in its original letter
\* case, whatever its length and even if it is a stop word.
C25_QuotedPhrasesVerbatim ==
    ExtractReturned => QuotedSubstrings(ret.query) \subseteq ToSet(ret.result)

C25_Witness ==
    /\ ExtractReturned
    /\ ret.query = "\"The\""
    /\ "the" \in stop_words
    /\ QuotedSubstrings(ret.query) = {"The"}
    /\ "The" \in ToSet(ret.result)

\* the adjacent word pairs of the query split on whitespace, as positions
AdjacentPairs(query) == 1..(Len(split(query)) - 1)

PairCompound(query, i) == lower(split(query)[i] \o " " \o split(query)[i + 1])

PairQualifies(query, i) ==
    /\ Len(split(query)[i]) > 2
    /\ Len(split(query)[i + 1]) > 2
    /\ PairCompound(query, i) \in DOMAIN academic_synonyms

C30_NoEmptyTerm ==
    ExtractReturned => "" \notin ToSet(ret.result)

\* the position of paper p in the list
PositionOf(papers, p) == CHOOSE i \in 1..Len(papers) : papers[i] = p

\* two input positions whose papers tie on score and on publication time
FullTie(papers, terms, i, j) ==
    /\ i < j
    /\ papers[i].published = papers[j].published
    /\ StatedScore(papers[i], terms) = StatedScore(papers[j], terms)

\* C29: two papers with the same score and the same publication time are
\* returned in the relative order they had in the input list.
C29_FullTiesKeepInputOrder ==
    RankReturned =>
        LET terms == RankTerms(ret.query)
        IN \A i, j \in 1..Len(ret.papers) :
               FullTie(ret.papers, terms, i, j) =>
                   PositionOf(ret.result, ret.papers[i])
                       < PositionOf(ret.result, ret.papers[j])

C29_Witness ==
    /\ RankReturned
    /\ ret.result # ret.papers
    /\ LET terms == RankTerms(ret.query)
       IN \E i, j \in 1..Len(ret.papers) :
              /\ FullTie(ret.papers, terms, i, j)
              /\ ret.papers[i] # ret.papers[j]

ExplainReturned ==
    client.op = "explain_semantic_search" /\ client.pc = "returned"

\* C21: a client is constructed with semantic search enabled or disabled;
\* explain_semantic_search(query, mode) of an enabled client returns a
\* non-empty string for every query and valid mode, of a disabled client
\* it returns None.
C21_ExplainSemanticSearch ==
    (ExplainReturned /\ client.semantic_mode \in Modes) =>
        IF client.semantic_engine
        THEN ~ client.explanation.is_none /\ client.explanation.str # ""
        ELSE client.explanation.is_none

C21_Witness ==
    /\ ExplainReturned
    /\ client.semantic_engine
    /\ client.query = ""
    /\ client.semantic_mode = "aggressive"
    /\ ~ client.explanation.is_none
    /\ Len(client.explanation.str) > 0

\* the search attempts among the first n events of the call
AttemptsUpTo(events, n) ==
    Cardinality({i \in 1..n : events[i].kind = "attempt"})

SearchInProgress == client.op = "search_papers"

\* C27: a call of search_papers makes at most max_retries attempts; an
\* attempt that succeeds ends the call, which returns that attempt's papers;
\* a failed attempt is followed by one sleep unless it is attempt number
\* max_retries, and then the call raises that attempt's exception; the call
\* raises in no other case.
C27_RetryLoop ==
    SearchInProgress =>
        LET events == client.events
            last == Len(events)
        IN /\ AttemptsUpTo(events, last) <= client.max_retries
           /\ \A i \in 1..last :
                 LET nth == AttemptsUpTo(events, i)
                 IN /\ (events[i].kind = "attempt" /\ events[i].exc = "") =>
                           /\ i = last
                           /\ client.pc = "returned"
                           /\ Len(client.papers) = Len(events[i].found)
                           /\ ToSet(client.papers) = ToSet(events[i].found)
                    /\ (events[i].kind = "attempt" /\ events[i].exc # ""
                            /\ nth < client.max_retries) =>
                           IF i = last THEN client.pc = "sleep"
                           ELSE events[i + 1].kind = "sleep"
                    /\ (events[i].kind = "attempt" /\ events[i].exc # ""
                            /\ nth >= client.max_retries) =>
                           /\ i = last
                           /\ client.pc = "raised"
                           /\ client.exception = events[i].exc
                    /\ events[i].kind = "sleep" =>
                           /\ i > 1
                           /\ events[i - 1].kind = "attempt"
                           /\ events[i - 1].exc # ""
           /\ client.pc = "raised" =>
                 /\ last > 0
                 /\ events[last].kind = "attempt"
                 /\ events[last].exc # ""
                 /\ AttemptsUpTo(events, last) = client.max_retries

C27_Witness ==
    /\ SearchInProgress
    /\ client.pc = "raised"
    /\ client.max_retries = 3
    /\ Len(client.events) = 5
    /\ client.events[1].exc # client.events[5].exc
    /\ client.exception = client.events[5].exc
    /\ client.events[2].kind = "sleep" /\ client.events[4].kind = "sleep"

DownloadReturned == pdf.pc = "returned"

\* C28: when download_pdf returns None for an id, the download directory
\* holds no file for that id.
C28_NoFileLeftAfterFailedDownload ==
    (DownloadReturned /\ pdf.result.is_none) =>
        ~ exists(pdf.files, pdf.dir_exists, filename(pdf.arxiv_id))

====
